---- MODULE Spec2Model ----
(***************************************************************************)
(* Model of app.py: a calendar poller that schedules one outbound call per *)
(* calendar event, one minute before the event starts.                     *)
(*                                                                         *)
(* Time is counted in whole minutes since process start.  Text is a Python *)
(* str: a sequence of characters, each character its Unicode code point.   *)
(* A calendar event is a Python dict: a record whose keys may be missing.  *)
(***************************************************************************)
EXTENDS Integers, Sequences, FiniteSets, TLC

(***************************************************************************)
(* Bounds of the model and constants of the program.                       *)
(***************************************************************************)
MaxTime == 10          \* the clock runs from 0 to MaxTime minutes
MaxEvents == 2         \* longest list one calendar fetch returns

Horizon == 66          \* the clock of the lookahead study runs from 0 to Horizon

PollInterval == 5      \* scheduler.add_job(check_calendar_events, 'interval', minutes=5)
Lookahead == 60        \* datetime.timedelta(hours=1)
OneMinute == 1         \* datetime.timedelta(minutes=1)
MisfireGrace == 0      \* add_job without misfire_grace_time: 1 second, no whole minute

Runners == {"poll", "manual"}
EventIds == {"e1", "e2"}

(***************************************************************************)
(* Python dict.get(key, default).                                          *)
(***************************************************************************)
Get(d, key, default) == IF key \in DOMAIN d THEN d[key] ELSE default

(***************************************************************************)
(* Characters and text.                                                    *)
(***************************************************************************)
\* The printable ASCII characters in code point order: from 32 (space) to 95,
\* and from 97 to 126.  (96, the grave accent, cannot be written in a string.)
AsciiFrom32 ==
  << " ", "!", "\"", "#", "$", "%", "&", "'", "(", ")", "*", "+", ",", "-", ".", "/",
     "0", "1", "2", "3", "4", "5", "6", "7", "8", "9", ":", ";", "<", "=", ">", "?",
     "@", "A", "B", "C", "D", "E", "F", "G", "H", "I", "J", "K", "L", "M", "N", "O",
     "P", "Q", "R", "S", "T", "U", "V", "W", "X", "Y", "Z", "[", "\\", "]", "^", "_" >>

AsciiFrom97 ==
  << "a", "b", "c", "d", "e", "f", "g", "h", "i", "j", "k", "l", "m", "n", "o",
     "p", "q", "r", "s", "t", "u", "v", "w", "x", "y", "z", "{", "|", "}", "~" >>

\* Python's ord on these characters.
Code ==
  [c \in { AsciiFrom32[i] : i \in 1..Len(AsciiFrom32) }
          \cup { AsciiFrom97[i] : i \in 1..Len(AsciiFrom97) } |->
     IF \E i \in 1..Len(AsciiFrom32) : AsciiFrom32[i] = c
       THEN 31 + CHOOSE i \in 1..Len(AsciiFrom32) : AsciiFrom32[i] = c
       ELSE 96 + CHOOSE i \in 1..Len(AsciiFrom97) : AsciiFrom97[i] = c]

ord(c) == Code[c]

\* The str written with the printable ASCII characters s.
RECURSIVE Text(_)
Text(s) == IF s = <<>> THEN <<>> ELSE <<ord(Head(s))>> \o Text(Tail(s))

\* Characters that are written by their code points.
FormFeed == 12                \* '\x0c'
NoBreakSpace == 160           \* '\xa0'
SuperscriptTwo == 178         \* '\xb2', a number that is no decimal digit
ZeroWidthSpace == 8203        \* '\u200b', a space that is no white space
IdeographicSpace == 12288     \* '\u3000'

(***************************************************************************)
(* extract_phone_number: re.search of                                      *)
(*   \+?1?\s*\-?\(?\d{3}\)?\s*\-?\s*\d{3}\s*\-?\s*\d{4}                    *)
(* A backtracking matcher: every element is greedy, the leftmost start     *)
(* wins, and at one start the first successful path in priority order.     *)
(***************************************************************************)
\* \d of a str pattern: the decimal digits of Unicode (category Nd), 660
\* characters in 66 runs of ten, each run the digits zero to nine of a script.
\* DigitZeros holds the zero of each run: 48 is "0", 1632 the Arabic-Indic
\* zero, 65296 the fullwidth zero.
DigitZeros ==
  { 48, 1632, 1776, 1984, 2406, 2534, 2662, 2790,
     2918, 3046, 3174, 3302, 3430, 3558, 3664, 3792,
     3872, 4160, 4240, 6112, 6160, 6470, 6608, 6784,
     6800, 6992, 7088, 7232, 7248, 42528, 43216, 43264,
     43472, 43504, 43600, 44016, 65296, 66720, 68912, 69734,
     69872, 69942, 70096, 70384, 70736, 70864, 71248, 71360,
     71472, 71904, 72016, 72784, 73040, 73120, 92768, 92864,
     93008, 120782, 120792, 120802, 120812, 120822, 123200, 123632,
     125264, 130032 }

Digits == UNION { z..(z + 9) : z \in DigitZeros }

\* \s of a str pattern: the white space of Unicode, 29 characters.
Spaces ==
  (9..13) \cup (28..32) \cup {133, 160, 5760} \cup (8192..8202)
    \cup {8232, 8233, 8239, 8287, 12288}

Unbounded == -1

Pattern ==
  << [cls |-> {ord("+")}, min |-> 0, max |-> 1],
     [cls |-> {ord("1")}, min |-> 0, max |-> 1],
     [cls |-> Spaces,     min |-> 0, max |-> Unbounded],
     [cls |-> {ord("-")}, min |-> 0, max |-> 1],
     [cls |-> {ord("(")}, min |-> 0, max |-> 1],
     [cls |-> Digits,     min |-> 3, max |-> 3],
     [cls |-> {ord(")")}, min |-> 0, max |-> 1],
     [cls |-> Spaces,     min |-> 0, max |-> Unbounded],
     [cls |-> {ord("-")}, min |-> 0, max |-> 1],
     [cls |-> Spaces,     min |-> 0, max |-> Unbounded],
     [cls |-> Digits,     min |-> 3, max |-> 3],
     [cls |-> Spaces,     min |-> 0, max |-> Unbounded],
     [cls |-> {ord("-")}, min |-> 0, max |-> 1],
     [cls |-> Spaces,     min |-> 0, max |-> Unbounded],
     [cls |-> Digits,     min |-> 4, max |-> 4] >>

\* How many characters from position pos on are in class cls, at most max.
RECURSIVE Run(_, _, _, _)
Run(text, pos, cls, max) ==
  IF pos > Len(text) \/ max = 0 \/ text[pos] \notin cls
    THEN 0
    ELSE 1 + Run(text, pos + 1, cls, IF max = Unbounded THEN Unbounded ELSE max - 1)

\* The numbers of characters element k can take at pos.
Counts(text, pos, k) ==
  Pattern[k].min .. Run(text, pos, Pattern[k].cls, Pattern[k].max)

\* Elements k.. of the pattern match at pos.
RECURSIVE Matches(_, _, _)
Matches(text, pos, k) ==
  \/ k > Len(Pattern)
  \/ \E c \in Counts(text, pos, k) : Matches(text, pos + c, k + 1)

Largest(S) == CHOOSE c \in S : \A d \in S : d <= c

\* The position after the match of elements k.. at pos, given that they match:
\* each element takes the most characters that let the rest match (greedy,
\* backtracking).
RECURSIVE MatchEnd(_, _, _)
MatchEnd(text, pos, k) ==
  IF k > Len(Pattern)
    THEN pos
    ELSE MatchEnd(text,
                  pos + Largest({ c \in Counts(text, pos, k) :
                                    Matches(text, pos + c, k + 1) }),
                  k + 1)

\* The leftmost position a match starts at, from pos on; 0 when there is none.
RECURSIVE SearchFrom(_, _)
SearchFrom(text, pos) ==
  IF pos > Len(text) THEN 0
  ELSE IF Matches(text, pos, 1) THEN pos
  ELSE SearchFrom(text, pos + 1)

\* (variant: the number is returned without the white space before it)
RECURSIVE LStrip(_)
LStrip(text) ==
  IF text # <<>> /\ Head(text) \in Spaces THEN LStrip(Tail(text)) ELSE text

extract_phone_number_stripped(text) ==
  IF text = <<>> \/ SearchFrom(text, 1) = 0 THEN <<>>
  ELSE LStrip(SubSeq(text, SearchFrom(text, 1),
                     MatchEnd(text, SearchFrom(text, 1), 1) - 1))

\* match.group(0) if match else None.  None is the empty text here: a match
\* is never empty, and the caller only tests the result for truth.
extract_phone_number(text) ==
  IF text = <<>> \/ SearchFrom(text, 1) = 0 THEN <<>>
  ELSE SubSeq(text, SearchFrom(text, 1), MatchEnd(text, SearchFrom(text, 1), 1) - 1)

(***************************************************************************)
(* Calendar events, as the calendar API returns them.                      *)
(*   start = [dateTime |-> s]  a timed event; s is the RFC 3339 text, kept *)
(*           as its wall-clock minute and its UTC offset in minutes, or a  *)
(*           text that is no ISO date ([iso |-> FALSE])                    *)
(*   start = [date |-> d]      an all-day event                            *)
(***************************************************************************)
DialText == Text(<<"d","i","a","l"," ","5","5","5","-","1","2","3","-","4","5","6","7">>)
OtherText == Text(<<"4","1","5","5","5","5","0","1","3","2">>)
PlainText == Text(<<"n","o"," ","n","u","m","b","e","r"," ","h","e","r","e">>)

IsoText(wall, utcoffset) == [iso |-> TRUE, wall |-> wall, utcoffset |-> utcoffset]
NotIsoText == [iso |-> FALSE]

Contents ==
  { [summary |-> "Standup", description |-> DialText,
     start |-> [dateTime |-> IsoText(7, 0)]],
    [description |-> OtherText,
     start |-> [dateTime |-> IsoText(9, 1)]],
    [summary |-> "Standup", description |-> DialText,
     start |-> [date |-> 9]],
    [summary |-> "Standup", description |-> PlainText,
     start |-> [dateTime |-> IsoText(7, 0)]],
    [summary |-> "Standup",
     start |-> [dateTime |-> IsoText(7, 0)]],
    [summary |-> "Standup", description |-> DialText],
    [summary |-> "Standup", description |-> DialText,
     start |-> [dateTime |-> NotIsoText]] }

WithId(c, i) == [k \in DOMAIN c \cup {"id"} |-> IF k = "id" THEN i ELSE c[k]]

Events == { WithId(c, i) : c \in Contents, i \in EventIds }

\* The lists one fetch can return: no id twice, at most MaxEvents events.
RECURSIVE ListsOf(_, _)
ListsOf(U, n) ==
  IF n = 0 THEN {<<>>}
  ELSE LET shorter == ListsOf(U, n - 1)
       IN  shorter \cup
           { Append(l, e) : l \in { x \in shorter : Len(x) = n - 1 },
                            e \in { y \in U : TRUE } }

DistinctIds(l) == \A a, b \in 1..Len(l) : a # b => l[a].id # l[b].id

EventLists == { l \in ListsOf(Events, MaxEvents) : DistinctIds(l) }

\* A calendar that holds two meetings, each with a dial-in number.
CoreEvents ==
  { [id |-> "e1", summary |-> "Standup", description |-> DialText,
     start |-> [dateTime |-> IsoText(7, 0)]],
    [id |-> "e2", description |-> OtherText,
     start |-> [dateTime |-> IsoText(9, 1)]] }

CoreLists == { l \in ListsOf(CoreEvents, MaxEvents) : DistinctIds(l) }

\* Descriptions as people write them: something before the number, the number
\* in one of its spellings, something after it.
CallInPrefix == Text(<<"C", "a", "l", "l", "-", "i", "n", ":", " ">>)
DialPrefix == Text(<<"d", "i", "a", "l", " ">>)
ParenPrefix == Text(<<"(">>)
Plus1Number == Text(<<"+", "1", " ", "(", "4", "1", "5", ")", " ", "5", "5", "5", "-", "0", "1", "3", "2">>)
DashedNumber == Text(<<"4", "1", "5", "-", "5", "5", "5", "-", "0", "1", "3", "2">>)
PlainNumber == Text(<<"4", "1", "5", "5", "5", "5", "0", "1", "3", "2">>)
ShortNumber == Text(<<"5", "5", "5", "-", "0", "1", "3", "2">>)
TightNumber == Text(<<"(", "4", "1", "5", ")", "5", "5", "5", "-", "0", "1", "3", "2">>)
SpacedNumber == Text(<<"1", " ", "4", "1", "5", " ", " ", "5", "5", "5", " ", "0", "1", "3", "2">>)
DottedNumber == Text(<<"4", "1", "5", ".", "5", "5", "5", ".", "0", "1", "3", "2">>)
E164Number == Text(<<"+", "1", "4", "1", "5", "5", "5", "5", "0", "1", "3", "2">>)
\* The same number in Arabic-Indic digits, in fullwidth digits with ideographic
\* spaces, and with form feeds or no-break spaces between its parts.
ArabicIndicNumber == <<1636, 1633, 1637, 1637, 1637, 1637, 1632, 1633, 1635, 1634>>
FullwidthNumber ==
  <<65300, 65297, 65301, IdeographicSpace, 65301, 65301, 65301, IdeographicSpace,
    65296, 65297, 65299, 65298>>
FormFeedNumber ==
  Text(<<"4", "1", "5">>) \o <<FormFeed>> \o Text(<<"5", "5", "5">>)
    \o <<NoBreakSpace>> \o Text(<<"0", "1", "3", "2">>)
\* No numbers: a superscript two for the last digit, zero-width spaces between
\* the parts.
SuperscriptNumber == Text(<<"4", "1", "5", "5", "5", "5", "0", "1", "3">>) \o <<SuperscriptTwo>>
ZeroWidthNumber ==
  Text(<<"4", "1", "5">>) \o <<ZeroWidthSpace>> \o Text(<<"5", "5", "5">>)
    \o <<ZeroWidthSpace>> \o Text(<<"0", "1", "3", "2">>)
FormFeedPrefix == Text(<<"C", "a", "l", "l", "-", "i", "n", ":">>) \o <<FormFeed>>
\* What the pattern finds in DialText.
DialNumber == Text(<<" ", "5", "5", "5", "-", "1", "2", "3", "-", "4", "5", "6", "7">>)
DigitSuffix == Text(<<"9">>)
SecondSuffix == Text(<<" ", "o", "r", " ", "2", "1", "2", "-", "5", "5", "5", "-", "0", "1", "9", "9">>)

Prefixes == { <<>>, CallInPrefix, DialPrefix, ParenPrefix, FormFeedPrefix }
Numbers == { Plus1Number, DashedNumber, PlainNumber, ShortNumber, TightNumber,
             SpacedNumber, DottedNumber, E164Number, ArabicIndicNumber,
             FullwidthNumber, FormFeedNumber, SuperscriptNumber, ZeroWidthNumber }
Suffixes == { <<>>, DigitSuffix, SecondSuffix }

Texts ==
  { p \o n \o s : p \in Prefixes, n \in Numbers, s \in Suffixes }
    \cup { <<>>, PlainText, DialText }

\* A meeting with one of these descriptions, or with none.
TextEvents ==
  { [id |-> "e1", summary |-> "Standup", description |-> t,
     start |-> [dateTime |-> IsoText(7, 0)]] : t \in Texts }
    \cup { [id |-> "e1", summary |-> "Standup",
            start |-> [dateTime |-> IsoText(7, 0)]] }

TextLists == { <<e>> : e \in TextEvents }

(***************************************************************************)
(* State.                                                                  *)
(*   now                  the UTC clock, in minutes                        *)
(*   nextPoll             when the interval job fires next                 *)
(*   pc[r], events[r]     where runner r stands in check_calendar_events   *)
(*                        and the events it still has to process; the head *)
(*                        is the event schedule_call_for_event works on    *)
(*   scheduled_event_ids  the registry                                     *)
(*   submitted            every job add_job accepted, in order; a job's    *)
(*                        number is its index, event_id the event it is for*)
(*   jobs                 the numbers of the jobs that have not fired yet  *)
(*   calls                the calls initiate_call has made, in order       *)
(*   flashed              the message flashed last, by /force-check or by  *)
(*                        the listing page /; "" before the first          *)
(*   webhook              the last request to /twilio-webhook and the      *)
(*                        response it got                                  *)
(*   polled               a record of the poll cycles so far: how many     *)
(*                        returned each event, how many failed to fetch    *)
(***************************************************************************)
\* Python's None
None == [none |-> TRUE]

VARIABLES now, nextPoll, pc, events, scheduled_event_ids, submitted, jobs, calls,
          flashed, webhook, polled

vars == <<now, nextPoll, pc, events, scheduled_event_ids, submitted, jobs, calls,
          flashed, webhook, polled>>

Init ==
  /\ now = 0
  /\ nextPoll = PollInterval
  /\ pc = [r \in Runners |-> "idle"]
  /\ events = [r \in Runners |-> <<>>]
  /\ scheduled_event_ids = {}
  /\ submitted = <<>>
  /\ jobs = {}
  /\ calls = <<>>
  /\ flashed = ""
  /\ webhook = None
  /\ polled = [returned |-> [id \in EventIds |-> 0], failed |-> 0]

(***************************************************************************)
(* schedule_call_for_event, lines 97-108: what the function decides for an *)
(* event that passed the registry check, at clock reading t.               *)
(***************************************************************************)
\* event['start'].get('dateTime'); None stands for a missing key
\* (variant: an all-day event counts as starting at its date, at UTC)
start_time_str_or_date(event) ==
  IF "dateTime" \in DOMAIN event.start THEN event.start.dateTime
  ELSE IsoText(event.start.date, 0)
start_time_str(event) == Get(event.start, "dateTime", None)

\* datetime.fromisoformat(s.replace('Z', '+00:00')), as a UTC instant
StartInstant(iso_text) == iso_text.wall - iso_text.utcoffset

\* call_time = start_time - datetime.timedelta(minutes=1)
\* (variant: the call is placed at the start, not a minute before)
CallTime_at_start(event) == StartInstant(start_time_str(event))
CallTime(event) == StartInstant(start_time_str(event)) - OneMinute

\* if call_time < datetime.datetime.now(datetime.timezone.utc): return
IsPast(call_time, t) == call_time < t

\* meeting_phone = extract_phone_number(event.get('description', '')); the
\* extraction is computed once for every description a calendar can hold.
Descriptions ==
  { Get(e, "description", <<>>) : e \in Events \cup CoreEvents \cup TextEvents }
Extracted == { <<text, extract_phone_number(text)>> : text \in Descriptions }
MeetingPhone(event) ==
  (CHOOSE p \in Extracted : p[1] = Get(event, "description", <<>>))[2]

EventName(event) == Get(event, "summary", "Upcoming Event")

\* The step the function goes to: a return, an exception, or line 110-111.
Decide(event, t) ==
  IF MeetingPhone(event) = <<>> THEN "ret_nophone"
  ELSE IF "start" \notin DOMAIN event THEN "exc_start"
  ELSE IF start_time_str(event) = None THEN "ret_allday"
  ELSE IF ~start_time_str(event).iso THEN "exc_start"
  ELSE IF IsPast(CallTime(event), t) THEN "ret_past"
  ELSE "add_job"

\* The job line 111 hands to the scheduler.
Job(event) ==
  [ event_id |-> event.id,
    run_at |-> CallTime(event),
    meeting_phone |-> MeetingPhone(event),
    event_name |-> EventName(event) ]

JobsFor(id) == { j \in 1..Len(submitted) : submitted[j].event_id = id }

(***************************************************************************)
(* The clock and the interval job.                                         *)
(***************************************************************************)
Tick ==
  /\ now < MaxTime
  /\ now' = now + 1
  /\ UNCHANGED <<nextPoll, pc, events, scheduled_event_ids, submitted, jobs, calls,
               flashed, webhook, polled>>

\* The interval job is due while the last poll still runs: the scheduler
\* skips this run (max_instances is 1) and waits for the next interval.
PollSkip ==
  /\ now >= nextPoll
  /\ pc["poll"] # "idle"
  /\ nextPoll' = nextPoll + PollInterval
  /\ UNCHANGED <<now, pc, events, scheduled_event_ids, submitted, jobs, calls,
               flashed, webhook>>

(***************************************************************************)
(* check_calendar_events, run by the interval job ("poll") or by           *)
(* /force-check ("manual").  alone: the runs that do not overlap another;  *)
(* lists: the lists the calendar can return.                               *)
(***************************************************************************)
Due(r) == r = "poll" => now >= nextPoll

\* force_check, lines 168-172: the message flashed once check_calendar_events
\* has returned, or has raised.  The interval job has no one to tell.
flash(raised) ==
  IF raised THEN "Error checking calendar" ELSE "Calendar checked successfully!"

Flashed(r, raised) == IF r = "manual" THEN flash(raised) ELSE flashed

Begin(r, alone) ==
  /\ pc[r] = "idle"
  /\ Due(r)
  /\ alone => \A q \in Runners : pc[q] = "idle"
  /\ nextPoll' = IF r = "poll" THEN nextPoll + PollInterval ELSE nextPoll

\* events = get_upcoming_events() returns a list
FetchOk(r, alone, lists) ==
  /\ Begin(r, alone)
  /\ \E l \in lists :
       /\ events' = [events EXCEPT ![r] = l]
       /\ pc' = [pc EXCEPT ![r] = IF l = <<>> THEN "idle" ELSE "check"]
       /\ flashed' = IF l = <<>> THEN Flashed(r, FALSE) ELSE flashed
  /\ UNCHANGED <<now, scheduled_event_ids, submitted, jobs, calls, webhook>>

\* get_upcoming_events() raises: no token.json, or the request fails
FetchFail(r, alone) ==
  /\ Begin(r, alone)
  /\ pc' = [pc EXCEPT ![r] = "exc_fetch"]
  /\ UNCHANGED <<now, events, scheduled_event_ids, submitted, jobs, calls,
               flashed, webhook>>

\* lines 92-95: the registry check
\* (variant: the registry is not consulted)
IsScheduled_never(event_id) == FALSE
IsScheduled(event_id) == event_id \in scheduled_event_ids

Check(r) ==
  /\ pc[r] = "check"
  /\ pc' = [pc EXCEPT ![r] = IF IsScheduled(Head(events[r]).id)
                             THEN "ret_dup" ELSE "decide"]
  /\ UNCHANGED <<now, nextPoll, events, scheduled_event_ids, submitted, jobs, calls,
               flashed, webhook, polled>>

\* lines 97-110: extract, validate, guard, and mark the event as scheduled
\* (variant: the id is not recorded)
MarkScheduled_nothing(event_id) == scheduled_event_ids
\* (variant: the insertion writes the set anew and loses what another thread
\* inserted)
MarkScheduled_overwrite(event_id) == {event_id}
\* (variant: marking an id that is marked already takes it out again)
MarkScheduled_toggle(event_id) ==
  IF event_id \in scheduled_event_ids THEN scheduled_event_ids \ {event_id}
  ELSE scheduled_event_ids \cup {event_id}
MarkScheduled(event_id) == scheduled_event_ids \cup {event_id}

\* line 110 is reached only on the way to add_job, past every return
\* (variant: the event is marked before the function looks at it)
Marks_always(to) == TRUE
Marks(to) == to = "add_job"

DecideAndMark(r) ==
  /\ pc[r] = "decide"
  /\ LET event == Head(events[r])
         to == Decide(event, now)
     IN  /\ pc' = [pc EXCEPT ![r] = to]
         /\ scheduled_event_ids' =
              IF Marks(to) THEN MarkScheduled(event.id) ELSE scheduled_event_ids
  /\ UNCHANGED <<now, nextPoll, events, submitted, jobs, calls,
               flashed, webhook, polled>>

\* line 111: scheduler.add_job accepts the job
AddJob(r) ==
  /\ pc[r] = "add_job"
  /\ submitted' = Append(submitted, Job(Head(events[r])))
  /\ jobs' = jobs \cup {Len(submitted) + 1}
  /\ pc' = [pc EXCEPT ![r] = "ret_scheduled"]
  /\ UNCHANGED <<now, nextPoll, events, scheduled_event_ids, calls,
               flashed, webhook, polled>>

\* line 111: scheduler.add_job raises (no scheduler object, scheduler shut down)
AddJobFail(r) ==
  /\ pc[r] = "add_job"
  /\ pc' = [pc EXCEPT ![r] = "exc_add_job"]
  /\ UNCHANGED <<now, nextPoll, events, scheduled_event_ids, submitted, jobs, calls,
               flashed, webhook, polled>>

\* line 120: schedule_call_for_event returned; the loop takes the next event
Returned == {"ret_dup", "ret_nophone", "ret_allday", "ret_past", "ret_scheduled"}

NextEvent(r) ==
  /\ pc[r] \in Returned
  /\ events' = [events EXCEPT ![r] = Tail(events[r])]
  /\ pc' = [pc EXCEPT ![r] = IF Tail(events[r]) = <<>> THEN "idle" ELSE "check"]
  /\ flashed' = IF Tail(events[r]) = <<>> THEN Flashed(r, FALSE) ELSE flashed
  /\ UNCHANGED <<now, nextPoll, scheduled_event_ids, submitted, jobs, calls,
               webhook, polled>>

\* lines 122-123: except Exception; the rest of the list is dropped
Raised == {"exc_fetch", "exc_start", "exc_add_job"}
Caught == {"caught_fetch", "caught_start", "caught_add_job"}
Handler == [exc_fetch |-> "caught_fetch", exc_start |-> "caught_start",
            exc_add_job |-> "caught_add_job"]

\* (variant: a handler that lets the fetch errors through)
Catches_no_fetch(exception) == exception # "exc_fetch"
Catches(exception) == exception \in Raised

Except(r) ==
  /\ pc[r] \in Raised
  /\ pc' = [pc EXCEPT ![r] = IF Catches(pc[r]) THEN Handler[pc[r]] ELSE "propagated"]
  /\ events' = [events EXCEPT ![r] = <<>>]
  /\ UNCHANGED <<now, nextPoll, scheduled_event_ids, submitted, jobs, calls,
               flashed, webhook, polled>>

\* the function is left: after line 123, or by the exception going up
Leave(r) ==
  /\ pc[r] \in Caught \cup {"propagated"}
  /\ pc' = [pc EXCEPT ![r] = "idle"]
  /\ flashed' = Flashed(r, pc[r] = "propagated")
  /\ UNCHANGED <<now, nextPoll, events, scheduled_event_ids, submitted, jobs, calls,
               webhook, polled>>

(***************************************************************************)
(* The scheduler gets to a date job, at or after run_date.  A job that is  *)
(* not later than the misfire grace time is run: initiate_call(            *)
(* meeting_phone, event_name) is called once; the call to the provider     *)
(* succeeds or raises, and lines 138-139 catch what it raises.  A job that *)
(* is later (the scheduler was busy or asleep, or run_date had passed when *)
(* line 111 submitted the job) is a misfire: it is not run.  Either way    *)
(* the job is dropped: a date job has no second run time.  Lateness within *)
(* one minute is not told apart.                                           *)
(***************************************************************************)
\* (variant: a failed call keeps its job for a retry)
JobsAfterFire_retry(j, ok) == IF ok THEN jobs \ {j} ELSE jobs
JobsAfterFire(j, ok) == jobs \ {j}

IsDue(j) == now >= submitted[j].run_at

\* datetime.now() - run_time > misfire_grace_time
Missed(j) == now - submitted[j].run_at > MisfireGrace

initiate_call(j, ok) ==
  [ job |-> j, meeting_phone |-> submitted[j].meeting_phone,
    event_name |-> submitted[j].event_name, ok |-> ok ]

Fire(j) ==
  /\ j \in jobs
  /\ IsDue(j)
  /\ \/ /\ ~Missed(j)
        /\ \E ok \in BOOLEAN :
             /\ calls' = Append(calls, initiate_call(j, ok))
             /\ jobs' = JobsAfterFire(j, ok)
     \/ /\ Missed(j)
        /\ calls' = calls
        /\ jobs' = jobs \ {j}
  /\ UNCHANGED <<now, nextPoll, pc, events, scheduled_event_ids, submitted,
               flashed, webhook, polled>>

(***************************************************************************)
(* /twilio-webhook, lines 142-152: the provider, or anyone, requests the   *)
(* voice response.  args is request.args, a dict of the query parameters.  *)
(***************************************************************************)
\* str() of a value put in an f-string: None is written as the text None
Str(value) == IF value = None THEN Text(<<"N", "o", "n", "e">>) ELSE value

twilio_webhook(args) ==
  LET meeting_phone == Get(args, "meeting_phone", None)
      event_name == Get(args, "event_name", "Upcoming Event")
  IN  [ mimetype |-> "text/xml",
        say |-> event_name,
        pause |-> 3,
        dial |-> Str(meeting_phone),
        timeout |-> 20 ]

\* The query parameters a request can carry: those of the webhook_url that
\* initiate_call builds for a call (line 130), or fewer.
CallArgs == { [meeting_phone |-> MeetingPhone(e), event_name |-> EventName(e)] :
                e \in { c \in CoreEvents : "summary" \in DOMAIN c } }

WebhookArgs ==
  { [k \in keys |-> a[k]] : a \in CallArgs, keys \in SUBSET {"meeting_phone", "event_name"} }

Webhook ==
  /\ \E args \in WebhookArgs :
       webhook' = [request |-> args, response |-> twilio_webhook(args)]
  /\ UNCHANGED <<now, nextPoll, pc, events, scheduled_event_ids, submitted, jobs,
               calls, flashed, polled>>

(***************************************************************************)
(* The listing page /, lines 155-163: index() fetches the events itself    *)
(* and flashes the text of the exception when the fetch raises.  It is the *)
(* page /force-check redirects the browser to (line 173), and a page of    *)
(* its own.  The events it lists go to the template and nowhere else.      *)
(***************************************************************************)
\* str(e) of what get_upcoming_events can raise: the exception of line 60, or
\* one of the calendar client.
FetchErrors ==
  { "Google Calendar credentials not found. Please complete the OAuth2 flow to generate token.json.",
    "calendar unreachable" }

index ==
  /\ \/ flashed' = flashed                      \* events = get_upcoming_events()
     \/ \E e \in FetchErrors : flashed' = e     \* flash(str(e)); events = []
  /\ UNCHANGED <<now, nextPoll, pc, events, scheduled_event_ids, submitted, jobs,
               calls, webhook, polled>>

(***************************************************************************)
(* Specifications.                                                         *)
(***************************************************************************)
check_calendar_events(r, alone, lists) ==
  \/ FetchOk(r, alone, lists) /\ UNCHANGED polled
  \/ FetchFail(r, alone) /\ UNCHANGED polled
  \/ Check(r)
  \/ DecideAndMark(r)
  \/ AddJob(r)
  \/ AddJobFail(r)
  \/ NextEvent(r)
  \/ Except(r)
  \/ Leave(r)

\* The job numbers there can be: at most one job for each event and runner.
JobNumbers == 1..(Cardinality(EventIds) * Cardinality(Runners))

\* The program: the interval job and /force-check run in their own threads,
\* on a calendar of two meetings.
Next ==
  \/ Tick
  \/ PollSkip /\ UNCHANGED polled
  \/ \E r \in Runners : check_calendar_events(r, FALSE, CoreLists)
  \/ \E j \in JobNumbers : Fire(j)

Spec == Init /\ [][Next]_vars

\* The runs of check_calendar_events follow one another; the calendar can
\* return any list of Events.
NextSeq ==
  \/ Tick
  \/ PollSkip /\ UNCHANGED polled
  \/ \E r \in Runners : check_calendar_events(r, TRUE, EventLists)
  \/ \E j \in JobNumbers : Fire(j)

SpecSeq == Init /\ [][NextSeq]_vars

\* The runs follow one another, on the calendar of two meetings.
NextCore ==
  \/ Tick
  \/ PollSkip /\ UNCHANGED polled
  \/ \E r \in Runners : check_calendar_events(r, TRUE, CoreLists)
  \/ \E j \in JobNumbers : Fire(j)

SpecCore == Init /\ [][NextCore]_vars

\* check_calendar_events while the scheduler runs: add_job accepts every job.
\* Whenever an interval job runs the scheduler does: it is the scheduler that
\* runs it (lines 178-180).
Pipeline(r, alone, lists) ==
  \/ FetchOk(r, alone, lists) /\ UNCHANGED polled
  \/ FetchFail(r, alone) /\ UNCHANGED polled
  \/ Check(r)
  \/ DecideAndMark(r)
  \/ AddJob(r)
  \/ NextEvent(r)
  \/ Except(r)
  \/ Leave(r)

\* The interval job and /force-check run in their own threads and are
\* returned the same meeting.
RaceLists == { l \in CoreLists : Len(l) = 1 /\ l[1].id = "e1" }

NextRace ==
  \/ Tick
  \/ PollSkip /\ UNCHANGED polled
  \/ \E r \in Runners : Pipeline(r, FALSE, RaceLists)
  \/ \E j \in JobNumbers : Fire(j)

SpecRace == Init /\ [][NextRace]_vars

\* The two threads are returned different meetings: the interval job the
\* first, /force-check the second.
DiffLists(r) ==
  { l \in CoreLists : Len(l) = 1 /\ l[1].id = IF r = "poll" THEN "e1" ELSE "e2" }

NextDiff ==
  \/ Tick
  \/ PollSkip /\ UNCHANGED polled
  \/ \E r \in Runners : Pipeline(r, FALSE, DiffLists(r))
  \/ \E j \in JobNumbers : Fire(j)

SpecDiff == Init /\ [][NextDiff]_vars

\* The program with its webhook: the interval job, /force-check, the date
\* jobs and /twilio-webhook, each in its own thread; the calendar returns one
\* meeting at a time.
WebLists == { l \in CoreLists : Len(l) = 1 }

NextWeb ==
  \/ Tick
  \/ PollSkip /\ UNCHANGED polled
  \/ \E r \in Runners : check_calendar_events(r, FALSE, WebLists)
  \/ \E j \in JobNumbers : Fire(j)
  \/ Webhook

SpecWeb == Init /\ [][NextWeb]_vars

\* The program with its pages: the interval job, /force-check, the listing
\* page and the date jobs, each in its own thread; the calendar returns one
\* meeting at a time.
NextFront ==
  \/ Tick
  \/ PollSkip /\ UNCHANGED polled
  \/ \E r \in Runners : check_calendar_events(r, FALSE, WebLists)
  \/ \E j \in JobNumbers : Fire(j)
  \/ index

SpecFront == Init /\ [][NextFront]_vars

(***************************************************************************)
(* get_upcoming_events, lines 66-76: the calendar is asked for the events  *)
(* between timeMin = now and timeMax = now + one hour, ordered by start    *)
(* time.  The calendar service answers with the events that end after      *)
(* timeMin and start before timeMax.                                       *)
(***************************************************************************)
\* (variant: the lookahead is no longer than the polling interval)
time_max_short(t) == t + PollInterval
time_max(t) == t + Lookahead
time_min(t) == t

EndInstant(event) == StartInstant(event.end.dateTime)

InWindow(event, t) ==
  /\ StartInstant(event.start.dateTime) < time_max(t)
  /\ EndInstant(event) > time_min(t)

\* A calendar of two meetings that start more than an hour after the process
\* does, in the order of their start times; they stay as they are.
WindowCalendar ==
  << [id |-> "e1", summary |-> "Standup", description |-> DialText,
      start |-> [dateTime |-> IsoText(61, 0)], end |-> [dateTime |-> IsoText(91, 0)]],
     [id |-> "e2", description |-> OtherText,
      start |-> [dateTime |-> IsoText(64, 1)], end |-> [dateTime |-> IsoText(79, 1)]] >>

get_upcoming_events(t) == SelectSeq(WindowCalendar, LAMBDA event : InWindow(event, t))

\* The scheduler runs the interval job the minute it is due, and a run takes
\* less than a minute: the clock waits for both.
TickWindow ==
  /\ now < Horizon
  /\ now < nextPoll
  /\ \A r \in Runners : pc[r] = "idle"
  /\ now' = now + 1
  /\ UNCHANGED <<nextPoll, pc, events, scheduled_event_ids, submitted, jobs, calls,
               flashed, webhook, polled>>

\* The record of the poll cycles, after one that returned list l, or failed.
PolledOk(l) ==
  [polled EXCEPT !.returned =
     [id \in EventIds |->
        IF \E k \in 1..Len(l) : l[k].id = id THEN @[id] + 1 ELSE @[id]]]
PolledFailed == [polled EXCEPT !.failed = @ + 1]

\* The interval job alone, its scheduler running, on the calendar above.
NextWindow ==
  \/ TickWindow
  \/ FetchOk("poll", TRUE, {get_upcoming_events(now)})
       /\ polled' = PolledOk(events'["poll"])
  \/ FetchFail("poll", TRUE) /\ polled' = PolledFailed
  \/ Check("poll")
  \/ DecideAndMark("poll")
  \/ AddJob("poll")
  \/ NextEvent("poll")
  \/ Except("poll")
  \/ Leave("poll")
  \/ \E j \in JobNumbers : Fire(j)

SpecWindow == Init /\ [][NextWindow]_vars

\* The runs follow one another, on a calendar whose meeting has any of the
\* descriptions of Texts.
NextText ==
  \/ Tick
  \/ PollSkip /\ UNCHANGED polled
  \/ \E r \in Runners : check_calendar_events(r, TRUE, TextLists)
  \/ \E j \in JobNumbers : Fire(j)

SpecText == Init /\ [][NextText]_vars

\* What the threads guarantee: the clock advances, the scheduler gets to a due
\* job (and runs it, or drops it as a misfire), a thread inside
\* check_calendar_events takes its next step.
Progress(r) ==
  \/ Check(r)
  \/ DecideAndMark(r)
  \/ AddJob(r)
  \/ AddJobFail(r)
  \/ NextEvent(r)
  \/ Except(r)
  \/ Leave(r)

Fairness ==
  /\ WF_vars(Tick)
  /\ \A j \in JobNumbers : WF_vars(Fire(j))
  /\ \A r \in Runners : WF_vars(Progress(r))

FairCore == SpecCore /\ Fairness

(***************************************************************************)
(* Properties.                                                             *)
(***************************************************************************)
Current(r) == Head(events[r])

\* A runner is inside schedule_call_for_event, working on an event.
Working(r) == pc[r] \in {"check", "decide", "add_job"} \cup Returned

\* The event has a concrete start time that parses.
Timed(event) ==
  /\ "start" \in DOMAIN event
  /\ "dateTime" \in DOMAIN event.start
  /\ event.start.dateTime.iso

\* The events schedule_call_for_event submits a job for at clock reading t,
\* once past the registry check: phone number in the description, concrete
\* start, call time not before t (line 106 returns on call_time < now only).
Eligible(event, t) ==
  /\ MeetingPhone(event) # <<>>
  /\ Timed(event)
  /\ ~IsPast(CallTime(event), t)

\* Eligible with the call time in the future, strictly.
EligibleAhead(event, t) == Eligible(event, t) /\ CallTime(event) > t

\* C1 (idempotent scheduling): when the runs of the pipeline follow one
\* another, no event id ever has more than one submitted job; the call that
\* schedules an event leaves exactly one job for its id, and a later call
\* on the same id leaves that one job and submits nothing.
C1_IdempotentScheduling ==
  /\ \A id \in EventIds : Cardinality(JobsFor(id)) <= 1
  /\ \A r \in Runners :
       pc[r] = "ret_scheduled" => Cardinality(JobsFor(Current(r).id)) = 1

\* The same eligible event has been passed a second time and was skipped.
C1_Witness ==
  \E r \in Runners :
    /\ pc[r] = "ret_dup"
    /\ EligibleAhead(Current(r), now)
    /\ \E j \in JobsFor(Current(r).id) : submitted[j] = Job(Current(r))
    /\ Cardinality(JobsFor(Current(r).id)) = 1

\* C2 (registry update only after successful submission): every id in the
\* registry has a job that was submitted for it.
C2_MarkedOnlyAfterSubmission ==
  \A id \in scheduled_event_ids : JobsFor(id) # {}

\* C3 (past-time guard): a call of schedule_call_for_event that finds the
\* event's call time not strictly later than the clock, the boundary
\* call_time = now included, does not go on to submit a job.
C3_PastTimeGuard ==
  [][\A r \in Runners :
       (pc[r] = "decide" /\ Timed(Current(r)) /\ CallTime(Current(r)) <= now)
         => pc'[r] # "add_job" /\ scheduled_event_ids' = scheduled_event_ids]_vars

\* The event has no concrete start time: an all-day event, or no start at all.
NoConcreteStart(event) ==
  "start" \in DOMAIN event => "dateTime" \notin DOMAIN event.start

\* C4 (all-day exclusion): while a run works on an event without a concrete
\* start dateTime, no job is submitted and the event is not marked, whatever
\* its description holds.
C4_AllDayExclusion ==
  [][\A r \in Runners :
       (Working(r) /\ NoConcreteStart(Current(r)))
         => /\ submitted' = submitted
            /\ jobs' \subseteq jobs
            /\ scheduled_event_ids' = scheduled_event_ids
            /\ pc'[r] # "add_job"]_vars

\* An all-day event with a phone number in its description was skipped.
C4_Witness ==
  \E r \in Runners :
    /\ pc[r] = "ret_allday"
    /\ "date" \in DOMAIN Current(r).start
    /\ MeetingPhone(Current(r)) # <<>>

\* C5 (call-time offset): the job a run submits has run_at one minute
\* before the start instant of the event the run works on (start 7 at UTC
\* gives 6; wall clock 9 at UTC+1 gives 7), the phone number extracted from
\* its description, and its summary, or "Upcoming Event" without one.
C5_CallTimeOffset ==
  [][\A r \in Runners :
       (pc[r] = "add_job" /\ pc'[r] = "ret_scheduled")
         => LET event == Current(r)
                job == submitted'[Len(submitted')]
            IN  /\ Len(submitted') = Len(submitted) + 1
                /\ job.run_at = event.start.dateTime.wall
                                  - event.start.dateTime.utcoffset - 1
                /\ event.start.dateTime = IsoText(7, 0) => job.run_at = 6
                /\ event.start.dateTime = IsoText(9, 1) => job.run_at = 7
                /\ job.meeting_phone = extract_phone_number(event.description)
                /\ event.description = DialText =>
                     job.meeting_phone = DialNumber
                /\ job.event_name = IF "summary" \in DOMAIN event
                                    THEN event.summary ELSE "Upcoming Event"]_vars

\* A job was submitted for an event without summary whose start is not at UTC.
C5_Witness ==
  \E r \in Runners :
    /\ pc[r] = "ret_scheduled"
    /\ "summary" \notin DOMAIN Current(r)
    /\ Current(r).start.dateTime.utcoffset # 0
    /\ submitted[Len(submitted)].event_name = "Upcoming Event"

\* The calls made for job j.
CallsFor(j) == { i \in DOMAIN calls : calls[i].job = j }

\* C6 (consumed exactly once): a submitted job is pending until it is called
\* and never after; it is called at most once, with the meeting_phone and
\* event_name it was submitted with, and not before its run_at; every pending
\* job is eventually called.
C6_ConsumedExactlyOnce ==
  /\ [](\A j \in 1..Len(submitted) :
          /\ Cardinality(CallsFor(j)) <= 1
          /\ j \in jobs <=> CallsFor(j) = {}
          /\ \A i \in CallsFor(j) :
               /\ calls[i].meeting_phone = submitted[j].meeting_phone
               /\ calls[i].event_name = submitted[j].event_name)
  /\ [][\A j \in 1..Len(submitted) :
          CallsFor(j)' # CallsFor(j) => now >= submitted[j].run_at]_vars
  /\ \A j \in JobNumbers : (j \in jobs) ~> (CallsFor(j) # {})

\* C7 (no rescheduling after an edit): when the runs follow one another, a
\* run never goes past the registry check with an event whose id is in the
\* registry, whatever the event now holds; and once an id is in the registry
\* and the call that marked it is past its add_job, no step submits a job
\* for that id, and the jobs already submitted keep their run_at,
\* meeting_phone and event_name.
C7_EditedEventNotRescheduled ==
  /\ [](\A r \in Runners :
          pc[r] = "decide" => Current(r).id \notin scheduled_event_ids)
  /\ [][\A id \in scheduled_event_ids :
          (\A r \in Runners : ~(pc[r] = "add_job" /\ Current(r).id = id))
            => /\ JobsFor(id)' = JobsFor(id)
               /\ \A j \in 1..Len(submitted) :
                    j <= Len(submitted') /\ submitted'[j] = submitted[j]]_vars

\* An event whose content changed since its job was submitted, and which
\* would be eligible as it now is, was skipped.
C7_Witness ==
  \E r \in Runners :
    /\ pc[r] = "ret_dup"
    /\ EligibleAhead(Current(r), now)
    /\ \E j \in JobsFor(Current(r).id) :
         /\ submitted[j].run_at # Job(Current(r)).run_at
         /\ submitted[j].meeting_phone # Job(Current(r)).meeting_phone

\* C8 (fetch failure): an exception of get_upcoming_events never leaves
\* check_calendar_events; the steps of the failed cycle leave the registry,
\* the submitted and the pending jobs unchanged; the handler is entered and
\* the function returns; a failed poll leaves the interval job armed for
\* the next interval; and the failed run always comes back to idle, from
\* where the next cycle starts.
C8_FetchFailureContained ==
  /\ [](\A r \in Runners : pc[r] # "propagated")
  /\ [][\A r \in Runners :
          ((pc[r] \in {"exc_fetch", "caught_fetch"} \/ pc'[r] = "exc_fetch")
             /\ pc'[r] # pc[r])
            => /\ scheduled_event_ids' = scheduled_event_ids
               /\ submitted' = submitted
               /\ jobs' = jobs
               /\ pc[r] = "exc_fetch" => pc'[r] = "caught_fetch"
               /\ pc[r] = "caught_fetch" => pc'[r] = "idle"
               /\ pc'[r] = "exc_fetch" =>
                    nextPoll' = IF r = "poll" THEN nextPoll + PollInterval
                                ELSE nextPoll]_vars
  /\ \A r \in Runners : (pc[r] = "exc_fetch") ~> (pc[r] = "idle")

\* A poll cycle whose fetch failed is in its handler; the next poll is still
\* to come, and a job submitted before is still pending.
C8_Witness ==
  /\ pc["poll"] = "caught_fetch"
  /\ nextPoll <= MaxTime
  /\ jobs # {}

\* C9 (no retry): after a call that failed, the event's id is in the
\* registry, the job is no longer pending, the event has no other job, and
\* no other call was made for it.
C9_NoRetryAfterFailedCall ==
  \A i \in DOMAIN calls :
    ~calls[i].ok =>
      /\ submitted[calls[i].job].event_id \in scheduled_event_ids
      /\ calls[i].job \notin jobs
      /\ JobsFor(submitted[calls[i].job].event_id) = {calls[i].job}
      /\ CallsFor(calls[i].job) = {i}

\* After a failed call, a later run met the event again, eligible as it now
\* is, and skipped it.
C9_Witness ==
  \E i \in DOMAIN calls, r \in Runners :
    /\ ~calls[i].ok
    /\ pc[r] = "ret_dup"
    /\ Current(r).id = submitted[calls[i].job].event_id
    /\ EligibleAhead(Current(r), now)

\* C10 (job isolation): the step that runs a job, failed or not, takes that
\* one job out of the pending jobs and leaves the other pending jobs, the
\* runs of check_calendar_events and the interval job as they are; once a
\* call has failed, a pending job leaves the pending jobs only by being
\* called itself, and is eventually called, not before its run_at.
C10_JobIsolation ==
  /\ [][calls' # calls =>
          /\ Len(calls') = Len(calls) + 1
          /\ jobs' = jobs \ {calls'[Len(calls')].job}
          /\ now >= submitted[calls'[Len(calls')].job].run_at
          /\ UNCHANGED <<nextPoll, pc, events, scheduled_event_ids, submitted>>]_vars
  /\ [][(\E i \in DOMAIN calls : ~calls[i].ok)
          => \A j \in jobs : j \in jobs' \/ CallsFor(j)' # {}]_vars
  /\ \A j \in JobNumbers :
       (j \in jobs /\ \E i \in DOMAIN calls : ~calls[i].ok)
         ~> (CallsFor(j) # {})

\* C11 (the manual check reports success or failure): when /force-check
\* comes back from a check whose fetch failed, the message it flashes is the
\* failure message; "Calendar checked successfully!" is flashed only by a
\* check that ran without an error.  (The listing page the browser is sent
\* to next flashes a message of its own, and only when its own fetch fails.)
C11_ManualCheckReportsFailure ==
  [][(pc["manual"] # "idle" /\ pc'["manual"] = "idle")
       => /\ pc["manual"] = "caught_fetch" => flashed' = flash(TRUE)
          /\ flashed' = flash(FALSE) => pc["manual"] \notin Caught \cup {"propagated"}]_vars

\* C12 (same-event race): when the interval job and /force-check work on the
\* same eligible event at once, the event never has more than two jobs,
\* however their registry checks and marks interleave; once its id is in the
\* registry it has a job, or the add_job that submits one is the next step of
\* a run; and once the id is in the registry and no run is between its
\* registry check and its add_job for that event, no step submits another.
C12_SameEventRace ==
  /\ [](\A id \in EventIds :
          /\ Cardinality(JobsFor(id)) <= 2
          /\ id \in scheduled_event_ids =>
               \/ JobsFor(id) # {}
               \/ \E r \in Runners : pc[r] = "add_job" /\ Current(r).id = id)
  /\ [][\A id \in scheduled_event_ids :
          (\A r \in Runners :
             ~(pc[r] \in {"decide", "add_job"} /\ Current(r).id = id))
            => JobsFor(id)' = JobsFor(id)]_vars

\* Both threads passed the registry check before either marked the event:
\* it has two jobs, and a later run has skipped it.
C12_Witness ==
  /\ Cardinality(JobsFor("e1")) = 2
  /\ \E r \in Runners : pc[r] = "ret_dup" /\ Current(r).id = "e1"

\* C13 (different-event concurrency): when the two threads work on two
\* different eligible events at once, no event ever has more than one job,
\* however the steps interleave; a marked event has its job, or the add_job
\* that submits it is the next step of a run; an event with a job is in the
\* registry; no step takes an id out of the registry; and when both threads
\* are past their mark, both ids are in the registry.
C13_DifferentEventConcurrency ==
  /\ [](\A id \in EventIds :
          /\ Cardinality(JobsFor(id)) <= 1
          /\ JobsFor(id) # {} => id \in scheduled_event_ids
          /\ id \in scheduled_event_ids =>
               \/ JobsFor(id) # {}
               \/ \E r \in Runners : pc[r] = "add_job" /\ Current(r).id = id)
  /\ []((\A r \in Runners : pc[r] \in {"add_job", "ret_scheduled"})
          => scheduled_event_ids = { Current(r).id : r \in Runners })
  /\ [][scheduled_event_ids \subseteq scheduled_event_ids']_vars

\* The two threads have scheduled their events side by side: each event has
\* its one job and both ids are in the registry.
C13_Witness ==
  /\ \A r \in Runners : pc[r] = "ret_scheduled"
  /\ Current("poll").id # Current("manual").id
  /\ \A id \in EventIds : Cardinality(JobsFor(id)) = 1
  /\ scheduled_event_ids = EventIds

\* C14 (the registry grows monotonically): the registry is empty at process
\* start; no step of a poll cycle, a manual check, a job firing or a webhook
\* request takes an id out of it; and the mark of a run whose event is
\* already marked leaves the registry as it is.
C14_RegistryMonotone ==
  /\ scheduled_event_ids = {}
  /\ [][scheduled_event_ids \subseteq scheduled_event_ids']_vars
  /\ [][\A r \in Runners :
          (pc[r] = "decide" /\ pc'[r] = "add_job"
             /\ Current(r).id \in scheduled_event_ids)
            => scheduled_event_ids' = scheduled_event_ids]_vars

\* Both threads have marked the same event, the second mark on a marked id;
\* before that a job has fired and the webhook has answered a request.
C14_Witness ==
  /\ \A r \in Runners : pc[r] = "add_job"
  /\ Current("poll").id = Current("manual").id
  /\ scheduled_event_ids = EventIds
  /\ calls # <<>>
  /\ webhook # None

\* C15 (webhook with missing parameters): the response to a request without
\* event_name announces "Upcoming Event"; the response to a request without
\* meeting_phone is a voice response whose Dial target is empty.
C15_WebhookMissingParameters ==
  webhook # None =>
    /\ webhook.response.mimetype = "text/xml"
    /\ "event_name" \notin DOMAIN webhook.request =>
         webhook.response.say = "Upcoming Event"
    /\ "meeting_phone" \notin DOMAIN webhook.request =>
         webhook.response.dial = <<>>

\* Some substring of the text is a North-American phone number.
HasPhone(text) == \E i \in 1..Len(text) : Matches(text, i, 1)

\* The phone number of the job the run has just submitted.
SubmittedPhone == submitted[Len(submitted)].meeting_phone

\* C16 (phone extraction): a run whose event has no description, an empty
\* one, "no number here" or any text without a phone pattern returns for
\* lack of a number, and only such a run does; the number a run submits is a
\* non-empty substring of the description, taken verbatim from the leftmost
\* place a phone pattern starts at, and is itself a whole phone pattern;
\* "Call-in: +1 (415) 555-0132" gives "+1 (415) 555-0132", "415-555-0132"
\* and "4155550132" give themselves, and of two numbers the first is taken.
\* The digits and the white space of the pattern are those of Unicode: a
\* number in Arabic-Indic or fullwidth digits, or with form feeds between its
\* parts, is returned as written.
C16_PhoneExtraction ==
  \A r \in Runners :
    LET text == Get(Current(r), "description", <<>>)
    IN  /\ pc[r] = "ret_nophone" => ~HasPhone(text)
        /\ pc[r] \in {"ret_past", "add_job", "ret_scheduled"} =>
             /\ HasPhone(text)
             /\ text \notin {<<>>, PlainText, ShortNumber, DottedNumber,
                            SuperscriptNumber, ZeroWidthNumber}
        /\ pc[r] = "ret_scheduled" =>
             /\ SubmittedPhone # <<>>
             /\ \E i \in 1..(Len(text) - Len(SubmittedPhone) + 1) :
                  /\ SubmittedPhone = SubSeq(text, i, i + Len(SubmittedPhone) - 1)
                  /\ \A k \in 1..(i - 1) : ~Matches(text, k, 1)
             /\ Matches(SubmittedPhone, 1, 1)
             /\ MatchEnd(SubmittedPhone, 1, 1) = Len(SubmittedPhone) + 1
             /\ text = CallInPrefix \o Plus1Number => SubmittedPhone = Plus1Number
             /\ text = DashedNumber => SubmittedPhone = DashedNumber
             /\ text = PlainNumber => SubmittedPhone = PlainNumber
             /\ text = CallInPrefix \o DashedNumber =>
                  SubmittedPhone = <<ord(" ")>> \o DashedNumber
             /\ text = PlainNumber \o DigitSuffix => SubmittedPhone = PlainNumber
             /\ text = FormFeedPrefix \o DashedNumber =>
                  SubmittedPhone = <<FormFeed>> \o DashedNumber
             /\ text \in {ArabicIndicNumber, FullwidthNumber, FormFeedNumber} =>
                  SubmittedPhone = text
             /\ text = DialPrefix \o ShortNumber \o SecondSuffix =>
                  SubmittedPhone = SubSeq(SecondSuffix, 4, Len(SecondSuffix))

\* A description with two numbers after "Call-in: ": the first was submitted,
\* as it is written.
C16_Witness ==
  \E r \in Runners :
    /\ pc[r] = "ret_scheduled"
    /\ Current(r).description = CallInPrefix \o Plus1Number \o SecondSuffix
    /\ SubmittedPhone = Plus1Number

\* Every poll that began before instant t is over, and none has begun since.
PollsBefore(t) == now >= t /\ nextPoll - PollInterval < t

\* C17 (overlapping coverage): with the one-hour lookahead and the
\* five-minute interval, when the call time of a meeting of the calendar
\* comes and at most one poll has failed to fetch, at least two poll
\* cycles have returned the meeting, and a job that runs at its call time has
\* been submitted for it.
C17_OverlappingCoverage ==
  \A k \in 1..Len(WindowCalendar) :
    LET event == WindowCalendar[k]
    IN  (PollsBefore(CallTime(event)) /\ polled.failed <= 1)
          => /\ polled.returned[event.id] >= 2
             /\ \E j \in JobsFor(event.id) : submitted[j].run_at = CallTime(event)

\* The call time of the first meeting has come; one of the eleven polls that
\* could return it has failed, the ten others have returned it, and its job
\* is pending.
C17_Witness ==
  /\ PollsBefore(CallTime(WindowCalendar[1]))
  /\ now = CallTime(WindowCalendar[1])
  /\ polled.failed = 1
  /\ polled.returned["e1"] = 10
  /\ \E j \in JobsFor("e1") : j \in jobs

\* C18 (per-event outcomes within one cycle): the processing of an event
\* ends in "job scheduled" or "skipped" and the loop goes on: an eligible
\* event of the fetched list that has no job yet stays on the list of the run
\* until the run has processed it, whatever events precede it, an event
\* with no start or with a start that cannot be parsed included.
C18_PerEventOutcomes ==
  [][\A r \in Runners :
       pc[r] \notin {"add_job", "exc_add_job"} =>
         \A k \in 1..Len(events[r]) :
           (EligibleAhead(events[r][k], now) /\ events[r][k].id \notin scheduled_event_ids)
             => \E i \in 1..Len(events'[r]) : events'[r][i] = events[r][k]]_vars

\* The returns of schedule_call_for_event that skip the event.
Skips == {"ret_dup", "ret_nophone", "ret_allday", "ret_past"}

\* C19 (a skip leaves the state unchanged): the step by which
\* schedule_call_for_event skips an event, and the step that takes the loop
\* on from it, leave the registry, the submitted and the pending jobs as
\* they are; an event skipped for another reason than being scheduled is not
\* in the registry, so a later run passes the registry check with it, and
\* if the event is eligible by then the run marks it and goes on to add_job.
C19_SkipLeavesStateUnchanged ==
  /\ [][\A r \in Runners :
          (pc'[r] # pc[r] /\ (pc[r] \in Skips \/ pc'[r] \in Skips))
            => /\ scheduled_event_ids' = scheduled_event_ids
               /\ submitted' = submitted
               /\ jobs' = jobs]_vars
  /\ [](\A r \in Runners :
          pc[r] \in Skips \ {"ret_dup"} => Current(r).id \notin scheduled_event_ids)
  /\ [][\A r \in Runners :
          /\ (pc[r] = "check" /\ pc'[r] # "check"
                /\ Current(r).id \notin scheduled_event_ids)
               => pc'[r] = "decide"
          /\ (pc[r] = "decide" /\ pc'[r] # "decide" /\ Eligible(Current(r), now))
               => /\ pc'[r] = "add_job"
                  /\ scheduled_event_ids' = scheduled_event_ids \cup {Current(r).id}]_vars

\* An event with a concrete start in the future was skipped for lack of a
\* phone number: it is not in the registry and has no job, while the job of
\* another event is pending.
C19_Witness ==
  \E r \in Runners :
    /\ pc[r] = "ret_nophone"
    /\ Timed(Current(r))
    /\ CallTime(Current(r)) > now
    /\ Current(r).id \notin scheduled_event_ids
    /\ JobsFor(Current(r).id) = {}
    /\ jobs # {}

\* C20 (no job for an unmarked event): whenever a job is submitted, the id
\* of its event is in the registry already; and in every state, under every
\* interleaving of the interval job and /force-check, the event id of every
\* job submitted so far is in the registry.
C20_JobsOnlyForMarkedEvents ==
  /\ [][Len(submitted') > Len(submitted) =>
          submitted'[Len(submitted')].event_id \in scheduled_event_ids]_vars
  /\ [](\A j \in 1..Len(submitted) : submitted[j].event_id \in scheduled_event_ids)

\* The two threads raced on the first meeting, which has two jobs; the
\* second meeting has its job; both ids are in the registry.
C20_Witness ==
  /\ Cardinality(JobsFor("e1")) = 2
  /\ JobsFor("e2") # {}
  /\ scheduled_event_ids = EventIds
====
